---- MODULE Spec2Model ----
(***************************************************************************)
(* A model of src/app.py: the bounded breadth-first crawler                *)
(* build_actor_graph, and find_actor_connection (second crawl, nx.compose, *)
(* bridging, nx.shortest_path), over a metadata provider whose answers are *)
(* revealed fetch by fetch and memoised as st.cache_data does.             *)
(***************************************************************************)
EXTENDS Integers, Sequences, FiniteSets, TLC

(* ------------------------------------------------------------------ *)
(* Bounds of the model                                                 *)
(* ------------------------------------------------------------------ *)
NumActors == 4
NumMovies == 3
\* build_actor_graph is explored for max_depth in 0..MaxDepthArg and
\* max_movies_per_actor in 1..MaxMoviesArg
MaxDepthArg == 2
MaxMoviesArg == 2
\* how many movies of one run may list a cast member twice
MaxDupCasts == 1
\* how many fetches of one run may be answered by an error payload
MaxErrorPayloads == 1
\* how many actors of one run may have a long list of solo credits
MaxProlific == 2
\* the number of solo credits of such an actor
FillerCount == 5
\* how many co-stars actor 1 and actor 2 have when the cache is warm
MaxNeighborsA == 11
MaxNeighborsB == 3

Actors == 1..NumActors
Movies == 1..NumMovies

(* ------------------------------------------------------------------ *)
(* Program constants                                                   *)
(* ------------------------------------------------------------------ *)
DefaultMaxDepth == 2
DefaultMaxMoviesPerActor == 5
CastLimit == 10
NeighborLimit == 10
TopMoviesLimit == 10
BridgeLimit == 20

(* ------------------------------------------------------------------ *)
(* Sequences                                                           *)
(* ------------------------------------------------------------------ *)
Min(a, b) == IF a <= b THEN a ELSE b

\* s[:n]
Take(s, n) == SubSeq(s, 1, Min(n, Len(s)))

Range(s) == {s[i] : i \in 1..Len(s)}

RECURSIVE SetToSeq(_)
\* the elements of a finite set of integers, ascending
SetToSeq(S) ==
    IF S = {} THEN <<>>
    ELSE LET x == CHOOSE y \in S : \A z \in S : y <= z
         IN  <<x>> \o SetToSeq(S \ {x})

RemoveAt(s, i) == SubSeq(s, 1, i - 1) \o SubSeq(s, i + 1, Len(s))

(* ------------------------------------------------------------------ *)
(* The provider's records                                              *)
(* ------------------------------------------------------------------ *)
\* the ids of the solo credits of actor a
FillerIds(a) == {NumMovies + (a - 1) * FillerCount + k : k \in 1..FillerCount}

IsFiller(m) == m > NumMovies

\* movie["title"] of a credit record, and "title" of the movie's details
MovieTitle(m) == <<"Title", m>>

\* f"Movie {movie_id}"
FallbackTitle(m) == <<"Movie", m>>

\* x.get("popularity", 0) of a credit record
MoviePopularity(m) ==
    IF IsFiller(m) THEN 1 ELSE IF m = NumMovies THEN 2 ELSE 0

\* cast_member["name"]
CastName(a) == <<"Name", a>>

\* f"Actor {start_actor_id}"
PlaceholderName(a) == <<"Actor", a>>

\* f"https://image.tmdb.org/t/p/w185{profile_path}" if profile_path else ""
ImageUrl(a) == IF a % 2 = 1 THEN <<"w185", a>> ELSE <<"">>

(* ------------------------------------------------------------------ *)
(* networkx.Graph: nodes with attributes, undirected edges with a      *)
(* "movies" attribute. An edge is kept as a record with its two ends   *)
(* in the order of the add_edge call that created it.                  *)
(* ------------------------------------------------------------------ *)
Missing == <<"missing">>

EmptyGraph == [nodes |-> <<>>, edges |-> {}]

NodesOf(g) == DOMAIN g.nodes

\* G.has_node(n), n in G
HasNode(g, n) == n \in DOMAIN g.nodes

Joins(e, u, v) == (e.u = u /\ e.v = v) \/ (e.u = v /\ e.v = u)

\* G.has_edge(u, v)
HasEdge(g, u, v) == \E e \in g.edges : Joins(e, u, v)

\* G[u][v]["movies"]
EdgeMovies(g, u, v) == (CHOOSE e \in g.edges : Joins(e, u, v)).movies

\* G.add_node(n, name=..., image=...): a node that exists gets the new attributes
AddNode(g, n, name, image) ==
    [g EXCEPT !.nodes = (n :> [name |-> name, image |-> image]) @@ g.nodes]

\* G.add_edge(u, v, movies=titles): creates the ends that are missing (without
\* attributes), and replaces the attribute of an edge that exists
AddEdge(g, u, v, titles) ==
    LET bare == [n \in {u, v} \ NodesOf(g) |-> [name |-> Missing, image |-> Missing]]
        kept == {e \in g.edges : ~Joins(e, u, v)}
        new  == IF HasEdge(g, u, v)
                THEN {[e EXCEPT !.movies = titles] : e \in g.edges \ kept}
                ELSE {[u |-> u, v |-> v, movies |-> titles]}
    IN  [nodes |-> g.nodes @@ bare, edges |-> kept \cup new]

\* a title the edge already carries is not appended again
AppendMovieUnlessPresent(g, u, v, title) ==
    [g EXCEPT !.edges =
        {IF Joins(e, u, v) /\ title \notin Range(e.movies)
         THEN [e EXCEPT !.movies = Append(@, title)] ELSE e
            : e \in g.edges}]

\* G[u][v]["movies"].append(title)
AppendMovie(g, u, v, title) ==
    [g EXCEPT !.edges =
        {IF Joins(e, u, v) THEN [e EXCEPT !.movies = Append(@, title)] ELSE e
            : e \in g.edges}]

\* set(G.neighbors(n))
Neighbors(g, n) ==
    {e.v : e \in {x \in g.edges : x.u = n}} \cup {e.u : e \in {x \in g.edges : x.v = n}}

\* a merge that concatenates the title lists of an edge both graphs have
ComposeConcat(g, h) ==
    [nodes |-> h.nodes @@ g.nodes,
     edges |-> {e \in g.edges : ~HasEdge(h, e.u, e.v)}
               \cup {[e EXCEPT !.movies =
                        IF HasEdge(g, e.u, e.v)
                        THEN EdgeMovies(g, e.u, e.v) \o e.movies ELSE e.movies] :
                        e \in h.edges}]

\* nx.compose(g, h): the union of the nodes and of the edges; where both graphs
\* have a node or an edge, the attributes of h take precedence
Compose(g, h) ==
    [nodes |-> h.nodes @@ g.nodes,
     edges |-> {e \in g.edges : ~HasEdge(h, e.u, e.v)} \cup h.edges]

(* ------------------------------------------------------------------ *)
(* State                                                               *)
(* ------------------------------------------------------------------ *)
VARIABLES
    \* the provider as seen through st.cache_data: the answers given so far
    credits,            \* get_actor_movies: actor id -> movie ids, provider order
    castOf,             \* get_movie_cast: movie id -> actor ids, provider order
    details,            \* get_movie_details: movie id -> title
    errored,            \* the requests that were answered by an error payload
    env,                \* what the provider may still do in this run
    calls,              \* every call of a fetch function, in order
    \* build_actor_graph
    start_actor_id, max_depth, max_movies_per_actor,
    G, visited_actors, visited_movies, queue,
    actor_id, depth, movies, movie_title, cast,
    pc,
    \* find_actor_connection
    phase, actor1_id, actor2_id, G_conn,
    G_first,            \* the graph the first crawl returned (G before line 175)
    actor1_neighbors, actor2_neighbors,
    a1_list, a2_list, a1, bridges_created, path,
    \* the "Find Connection" handler
    actor1, actor2,     \* what search_actor returned for the two names
    outcome             \* what the handler showed for the request

provider == <<credits, castOf, details, errored, env>>
params == <<start_actor_id, max_depth, max_movies_per_actor>>
crawl == <<G, visited_actors, visited_movies, queue, actor_id, depth, movies,
           movie_title, cast>>
conn == <<actor1_id, actor2_id, G_conn, G_first, actor1_neighbors, actor2_neighbors,
          a1_list, a2_list, a1, bridges_created, path>>
handler == <<actor1, actor2, outcome>>
vars == <<provider, calls, params, crawl, pc, phase, conn, handler>>

\* Python's None, where a path or a title is expected
None == <<>>

(* ------------------------------------------------------------------ *)
(* The provider. An answer is chosen when a request is first made and  *)
(* is the same for every later call (ttl=3600). Credits and casts of   *)
(* movies 1..NumMovies agree with each other; an answer may instead be *)
(* an error payload, which data.get("cast", []) turns into [].         *)
(* ------------------------------------------------------------------ *)
FillerOwner(m) == ((m - NumMovies - 1) \div FillerCount) + 1

CreditsKey(a) == <<"credits", a>>
CastKey(m) == <<"cast", m>>
DetailsKey(m) == <<"details", m>>

\* the actors whose credits are known and were not an error payload
KnownActors == {a \in DOMAIN credits : CreditsKey(a) \notin errored}
KnownMovies == {m \in DOMAIN castOf : CastKey(m) \notin errored}

\* the answers the provider can give to /person/{a}/movie_credits
CreditsAnswers(a) ==
    IF a \in DOMAIN credits
    THEN {[list |-> credits[a], error |-> 0, prolific |-> 0]}
    ELSE {[list |-> SetToSeq(S) \o fill.list, error |-> 0, prolific |-> fill.cost] :
            S \in {T \in SUBSET Movies :
                     \A m \in KnownMovies \cap Movies :
                        (m \in T) <=> (a \in Range(castOf[m]))},
            fill \in {[list |-> <<>>, cost |-> 0]} \cup
                     (IF env.prolific > 0
                      THEN {[list |-> SetToSeq(FillerIds(a)), cost |-> 1]}
                      ELSE {})}
         \cup (IF env.error > 0
               THEN {[list |-> <<>>, error |-> 1, prolific |-> 0]}
               ELSE {})

\* the answers the provider can give to /movie/{m}/credits
CastAnswers(m) ==
    IF m \in DOMAIN castOf
    THEN {[list |-> castOf[m], error |-> 0, dup |-> 0]}
    ELSE (IF IsFiller(m)
          THEN {[list |-> <<FillerOwner(m)>>, error |-> 0, dup |-> 0]}
          ELSE UNION {
                  {[list |-> SetToSeq(C), error |-> 0, dup |-> 0]} \cup
                  (IF env.dup > 0
                   THEN {[list |-> SetToSeq(C) \o <<b>>, error |-> 0, dup |-> 1] :
                           b \in C}
                   ELSE {}) :
                  C \in {D \in SUBSET Actors :
                           \A a \in KnownActors :
                              (a \in D) <=> (m \in Range(credits[a]))}})
         \cup (IF env.error > 0
               THEN {[list |-> <<>>, error |-> 1, dup |-> 0]}
               ELSE {})

\* the request is made: the answer is remembered and charged to env
AnswerCredits(a, ans) ==
    /\ credits' = (a :> ans.list) @@ credits
    /\ errored' = IF ans.error = 1 THEN errored \cup {CreditsKey(a)} ELSE errored
    /\ env' = [env EXCEPT !.error = @ - ans.error, !.prolific = @ - ans.prolific]
    /\ UNCHANGED <<castOf, details>>

AnswerCast(m, ans) ==
    /\ castOf' = (m :> ans.list) @@ castOf
    /\ errored' = IF ans.error = 1 THEN errored \cup {CastKey(m)} ELSE errored
    /\ env' = [env EXCEPT !.error = @ - ans.error, !.dup = @ - ans.dup]
    /\ UNCHANGED <<credits, details>>

\* a call of fn(arg) at a line of app.py; depth is the depth of the actor being
\* expanded (0 outside the loop of build_actor_graph)
Call(fn, arg, line, d) ==
    [fn |-> fn, arg |-> arg, line |-> line, phase |-> phase, depth |-> d]

(* ------------------------------------------------------------------ *)
(* build_actor_graph                                                   *)
(* ------------------------------------------------------------------ *)
\* movie.get("cast") of a credit record: the records of movie_credits carry
\* id, title and popularity, and no cast
CreditCast(m) == <<>>

\* lines 88-98: the seed's own cast record, looked for in its credit records
StartActorData(actor_movies, seed) ==
    LET found == {i \in 1..Len(actor_movies) :
                     seed \in Range(CreditCast(actor_movies[i]))}
    IN  IF found = {}
        THEN [name |-> PlaceholderName(seed), image |-> <<"">>]
        ELSE [name |-> CastName(seed), image |-> ImageUrl(seed)]

RECURSIVE SortByPopularity(_)
\* sorted(movies, key=popularity, reverse=True): stable, the most popular first
SortByPopularity(s) ==
    IF s = <<>> THEN <<>>
    ELSE LET best == CHOOSE i \in 1..Len(s) :
                        /\ \A j \in 1..Len(s) :
                              MoviePopularity(s[j]) <= MoviePopularity(s[i])
                        /\ \A j \in 1..(i - 1) :
                              MoviePopularity(s[j]) < MoviePopularity(s[i])
         IN  <<s[best]>> \o SortByPopularity(RemoveAt(s, best))

\* line 125
RetainedMovies(list, n) == Take(SortByPopularity(list), n)

\* line 145 left out: the node is added whether or not it exists
EnsureNodeOverwrite(g, member) ==
    AddNode(g, member, CastName(member), ImageUrl(member))

\* lines 144-148 left out: add_edge is left to create the node
EnsureNodeNever(g, member) == g

\* lines 144-148
EnsureNode(g, member) ==
    IF HasNode(g, member) THEN g
    ELSE AddNode(g, member, CastName(member), ImageUrl(member))

\* every cast member is linked to every actor the graph holds
AddCollaborationToAll(g, actor, member, title) ==
    LET others == SetToSeq(NodesOf(g) \ {member})
        Link[i \in 0..Len(others)] ==
            IF i = 0 THEN g
            ELSE IF HasEdge(Link[i - 1], others[i], member)
                 THEN AppendMovie(Link[i - 1], others[i], member, title)
                 ELSE AddEdge(Link[i - 1], others[i], member, <<title>>)
    IN  Link[Len(others)]

\* the test of line 151 left out
AddCollaborationNoSelfTest(g, actor, member, title) ==
    IF HasEdge(g, actor, member)
    THEN AppendMovie(g, actor, member, title)
    ELSE AddEdge(g, actor, member, <<title>>)

\* lines 150-156
AddCollaboration(g, actor, member, title) ==
    IF actor # member
    THEN IF HasEdge(g, actor, member)
         THEN AppendMovie(g, actor, member, title)
         ELSE AddEdge(g, actor, member, <<title>>)
    ELSE g

\* the cast member is queued at the depth of the actor being expanded
EnqueueSameDepth(q, visited, member, d) ==
    IF member \notin visited THEN Append(q, <<member, d>>) ELSE q

\* the test of line 159 left out
EnqueueAlways(q, visited, member, d) == Append(q, <<member, d + 1>>)

\* lines 158-160
Enqueue(q, visited, member, d) ==
    IF member \notin visited THEN Append(q, <<member, d + 1>>) ELSE q

\* where the loops of lines 109-160 stand once the current item is done
AfterItem(restCast, restMovies) ==
    IF restCast # <<>> THEN "cast"
    ELSE IF restMovies # <<>> THEN "movies"
    ELSE "loop"

\* the test of line 118 off by one
ReachedMaxDepthLate(d, limit) == d > limit

\* line 118
ReachedMaxDepth(d, limit) == d >= limit

\* build_actor_graph was called: on its own, or by line 167 or line 172
Called == phase \in {"crawl", "A", "B"}

\* lines 82-106
Begin ==
    /\ Called
    /\ pc = "start"
    /\ \E ans \in CreditsAnswers(start_actor_id) :
          /\ AnswerCredits(start_actor_id, ans)
          /\ LET data == StartActorData(ans.list, start_actor_id)
             IN  G' = AddNode(EmptyGraph, start_actor_id, data.name, data.image)
    /\ calls' = Append(calls, Call("get_actor_movies", start_actor_id, 87, 0))
    /\ visited_actors' = {}
    /\ visited_movies' = {}
    /\ queue' = <<<<start_actor_id, 0>>>>
    /\ pc' = "loop"
    /\ UNCHANGED <<params, actor_id, depth, movies, movie_title, cast, phase, conn,
                   handler>>

\* the entry of a visited actor is put back at the end of the queue
DequeueVisitedPutBack ==
    /\ pc = "loop"
    /\ queue # <<>>
    /\ Head(queue)[1] \in visited_actors
    /\ queue' = Append(Tail(queue), Head(queue))
    /\ actor_id' = Head(queue)[1]
    /\ depth' = Head(queue)[2]
    /\ UNCHANGED <<provider, calls, params, G, visited_actors, visited_movies,
                   movies, movie_title, cast, pc, phase, conn,
                   handler>>

\* lines 110-113: the actor was expanded or passed over before
DequeueVisited ==
    /\ pc = "loop"
    /\ queue # <<>>
    /\ Head(queue)[1] \in visited_actors
    /\ queue' = Tail(queue)
    /\ actor_id' = Head(queue)[1]
    /\ depth' = Head(queue)[2]
    /\ UNCHANGED <<provider, calls, params, G, visited_actors, visited_movies,
                   movies, movie_title, cast, pc, phase, conn,
                   handler>>

\* lines 110-119: the actor is at max_depth, it is marked and not expanded
DequeueAtMaxDepth ==
    /\ pc = "loop"
    /\ queue # <<>>
    /\ Head(queue)[1] \notin visited_actors
    /\ ReachedMaxDepth(Head(queue)[2], max_depth)
    /\ queue' = Tail(queue)
    /\ actor_id' = Head(queue)[1]
    /\ depth' = Head(queue)[2]
    /\ visited_actors' = visited_actors \cup {Head(queue)[1]}
    /\ UNCHANGED <<provider, calls, params, G, visited_movies,
                   movies, movie_title, cast, pc, phase, conn,
                   handler>>

\* lines 110-125: the actor is expanded
Expand ==
    /\ pc = "loop"
    /\ queue # <<>>
    /\ Head(queue)[1] \notin visited_actors
    /\ ~ReachedMaxDepth(Head(queue)[2], max_depth)
    /\ queue' = Tail(queue)
    /\ actor_id' = Head(queue)[1]
    /\ depth' = Head(queue)[2]
    /\ visited_actors' = visited_actors \cup {Head(queue)[1]}
    /\ \E ans \in CreditsAnswers(Head(queue)[1]) :
          /\ AnswerCredits(Head(queue)[1], ans)
          /\ movies' = RetainedMovies(ans.list, max_movies_per_actor)
    /\ calls' = Append(calls, Call("get_actor_movies", Head(queue)[1], 122, Head(queue)[2]))
    /\ pc' = AfterItem(<<>>, movies')
    /\ UNCHANGED <<params, G, visited_movies, movie_title, cast, phase, conn,
                   handler>>

\* lines 127-132: the movie's cast was fetched before in this crawl
SkipMovie ==
    /\ pc = "movies"
    /\ Head(movies) \in visited_movies
    /\ movies' = Tail(movies)
    /\ pc' = AfterItem(<<>>, movies')
    /\ UNCHANGED <<provider, calls, params, G, visited_actors, visited_movies, queue,
                   actor_id, depth, movie_title, cast, phase, conn,
                   handler>>

\* the movie is not added to visited_movies (line 134 left out)
FetchCastUnmarked ==
    /\ pc = "movies"
    /\ Head(movies) \notin visited_movies
    /\ movie_title' = MovieTitle(Head(movies))
    /\ \E ans \in CastAnswers(Head(movies)) :
          /\ AnswerCast(Head(movies), ans)
          /\ cast' = Take(ans.list, CastLimit)
    /\ calls' = Append(calls, Call("get_movie_cast", Head(movies), 137, depth))
    /\ movies' = Tail(movies)
    /\ pc' = AfterItem(cast', movies')
    /\ UNCHANGED <<params, G, visited_actors, visited_movies, queue, actor_id, depth,
                   phase, conn, handler>>

\* lines 127-140
FetchCast ==
    /\ pc = "movies"
    /\ Head(movies) \notin visited_movies
    /\ visited_movies' = visited_movies \cup {Head(movies)}
    /\ movie_title' = MovieTitle(Head(movies))
    /\ \E ans \in CastAnswers(Head(movies)) :
          /\ AnswerCast(Head(movies), ans)
          /\ cast' = Take(ans.list, CastLimit)
    /\ calls' = Append(calls, Call("get_movie_cast", Head(movies), 137, depth))
    /\ movies' = Tail(movies)
    /\ pc' = AfterItem(cast', movies')
    /\ UNCHANGED <<params, G, visited_actors, queue, actor_id, depth, phase, conn,
                   handler>>

\* lines 140-160, one cast member
CastMember ==
    /\ pc = "cast"
    /\ G' = AddCollaboration(EnsureNode(G, Head(cast)), actor_id, Head(cast), movie_title)
    /\ queue' = Enqueue(queue, visited_actors, Head(cast), depth)
    /\ cast' = Tail(cast)
    /\ pc' = AfterItem(cast', movies)
    /\ UNCHANGED <<provider, calls, params, visited_actors, visited_movies,
                   actor_id, depth, movies, movie_title, phase, conn,
                   handler>>

\* line 162, build_actor_graph called on its own
Return ==
    /\ pc = "loop"
    /\ queue = <<>>
    /\ phase = "crawl"
    /\ pc' = "returned"
    /\ UNCHANGED <<provider, calls, params, crawl, phase, conn,
                   handler>>

\* the ids of the retained movies of the crawl instead of the first ten
TopMovieIdsByPopularity(list) == Range(RetainedMovies(list, DefaultMaxMoviesPerActor))

\* {m["id"] for m in movies[:10]}
TopMovieIds(list) == Range(Take(list, TopMoviesLimit))

\* requests.get raises (no connection, a body that is not JSON): nothing in
\* build_actor_graph or find_actor_connection catches it
NextRequest ==
    IF Called /\ pc = "start"
    THEN {CreditsKey(start_actor_id)} \ {CreditsKey(a) : a \in DOMAIN credits}
    ELSE IF pc = "loop" /\ queue # <<>> /\ Head(queue)[1] \notin visited_actors
                        /\ ~ReachedMaxDepth(Head(queue)[2], max_depth)
         THEN {CreditsKey(Head(queue)[1])} \ {CreditsKey(a) : a \in DOMAIN credits}
    ELSE IF pc = "movies" /\ Head(movies) \notin visited_movies
         THEN {CastKey(Head(movies))} \ {CastKey(m) : m \in DOMAIN castOf}
    ELSE IF phase = "bridge" /\ a2_list = <<>> /\ a1_list # <<>>
         THEN {CreditsKey(Head(a1_list))} \ {CreditsKey(a) : a \in DOMAIN credits}
    ELSE IF phase = "bridge" /\ a2_list # <<>>
         THEN IF Head(a2_list) \notin DOMAIN credits
              THEN {CreditsKey(Head(a2_list))}
              ELSE {DetailsKey(m) :
                      m \in (TopMovieIds(credits[a1])
                               \cap TopMovieIds(credits[Head(a2_list)])) \ DOMAIN details}
    ELSE {}

FetchRaises ==
    /\ NextRequest # {}
    /\ pc' = "raised"
    /\ phase' = IF phase = "crawl" THEN phase ELSE "raised"
    /\ UNCHANGED <<provider, calls, params, crawl, conn,
                   handler>>

CrawlStep ==
    \/ Begin
    \/ DequeueVisited
    \/ DequeueAtMaxDepth
    \/ Expand
    \/ SkipMovie
    \/ FetchCast
    \/ CastMember

InitProvider(dup, error, prolific) ==
    /\ credits = <<>>
    /\ castOf = <<>>
    /\ details = <<>>
    /\ errored = {}
    /\ env = [dup |-> dup, error |-> error, prolific |-> prolific]
    /\ calls = <<>>

InitLocals ==
    /\ G = EmptyGraph
    /\ visited_actors = {}
    /\ visited_movies = {}
    /\ queue = <<>>
    /\ actor_id = 0
    /\ depth = 0
    /\ movies = <<>>
    /\ movie_title = None
    /\ cast = <<>>
    /\ pc = "start"

InitConnLocals ==
    /\ G_conn = EmptyGraph
    /\ G_first = EmptyGraph
    /\ actor1_neighbors = {}
    /\ actor2_neighbors = {}
    /\ a1_list = <<>>
    /\ a2_list = <<>>
    /\ a1 = 0
    /\ bridges_created = 0
    /\ path = None

\* nothing was searched for and nothing was shown
InitHandlerLocals ==
    /\ actor1 = None
    /\ actor2 = None
    /\ outcome = None

InitCrawlOver(dup, error) ==
    /\ InitProvider(dup, error, 0)
    /\ InitLocals
    /\ InitHandlerLocals
    /\ start_actor_id \in 1..2
    /\ max_depth \in 0..MaxDepthArg
    /\ max_movies_per_actor \in 1..MaxMoviesArg
    /\ phase = "crawl"
    /\ actor1_id = 0
    /\ actor2_id = 0
    /\ InitConnLocals

\* build_actor_graph(start_actor_id, max_depth, max_movies_per_actor)
InitCrawl == InitCrawlOver(MaxDupCasts, MaxErrorPayloads)

\* the same over a provider that repeats no cast member and sends no error
\* payload
InitCrawlPlain == InitCrawlOver(0, 0)

NextCrawl ==
    \/ CrawlStep
    \/ Return
    \/ FetchRaises

SpecCrawl == InitCrawl /\ [][NextCrawl]_vars

\* the interpreter keeps running the call until it returns or raises
FairSpecCrawl == InitCrawlPlain /\ [][NextCrawl]_vars /\ WF_vars(NextCrawl)

(* ------------------------------------------------------------------ *)
(* find_actor_connection                                               *)
(* ------------------------------------------------------------------ *)
RECURSIVE SimplePaths(_, _, _, _)
\* a search that keeps every path without a repeated node that reaches t
SimplePaths(g, paths, seen, t) ==
    IF paths = {} THEN {}
    ELSE LET found == {p \in paths : p[Len(p)] = t}
             next == UNION {{Append(p, n) : n \in Neighbors(g, p[Len(p)]) \ Range(p)} :
                              p \in paths \ found}
         IN  found \cup SimplePaths(g, next, seen, t)

RECURSIVE BFSPaths(_, _, _, _)
\* breadth-first search from the ends of `paths`: the shortest paths to t,
\* none when t cannot be reached
BFSPaths(g, paths, seen, t) ==
    IF paths = {} THEN {}
    ELSE IF \E p \in paths : p[Len(p)] = t
    THEN {p \in paths : p[Len(p)] = t}
    ELSE LET next == UNION {{Append(p, n) : n \in Neighbors(g, p[Len(p)]) \ seen} :
                              p \in paths}
         IN  BFSPaths(g, next, seen \cup {p[Len(p)] : p \in next}, t)

\* lines 218-225: nx.shortest_path(G, s, t) returns one of the shortest paths
\* and raises NetworkXNoPath when there is none
PathResults(g, s, t) ==
    IF HasNode(g, s) /\ HasNode(g, t)
    THEN LET found == BFSPaths(g, {<<s>>}, {s}, t)
         IN  IF found = {} THEN {None} ELSE found
    ELSE {None}

\* the second actor looked for among the first actor's neighbours only
SecondCrawlUnlessAdjacent(g, id) == id \notin Neighbors(g, actor1_id)

\* line 170: actor2_id not in G
SecondCrawlNeeded(g, id) == ~HasNode(g, id)

\* lines 167-172: the first crawl has returned
AfterFirstCrawl ==
    /\ phase = "A"
    /\ pc = "loop"
    /\ queue = <<>>
    /\ G_conn' = G
    /\ G_first' = G
    /\ IF ~SecondCrawlNeeded(G, actor2_id)
       THEN /\ phase' = "path"
            /\ pc' = "returned"
            /\ UNCHANGED <<params, crawl>>
       ELSE /\ phase' = "B"
            /\ pc' = "start"
            /\ start_actor_id' = actor2_id
            /\ G' = EmptyGraph
            /\ visited_actors' = {}
            /\ visited_movies' = {}
            /\ movies' = <<>>
            /\ cast' = <<>>
            /\ UNCHANGED <<max_depth, max_movies_per_actor, queue, actor_id, depth,
                           movie_title>>
    /\ UNCHANGED <<provider, calls, actor1_id, actor2_id, actor1_neighbors,
                   actor2_neighbors, a1_list, a2_list, a1, bridges_created, path, handler>>

\* lines 172-187: the second crawl has returned; merge, and set up the bridging
AfterSecondCrawl ==
    /\ phase = "B"
    /\ pc = "loop"
    /\ queue = <<>>
    /\ G_conn' = Compose(G_conn, G)
    /\ actor1_neighbors' = Neighbors(G_conn', actor1_id)
    /\ actor2_neighbors' = Neighbors(G_conn', actor2_id)
    /\ a1_list' = Take(SetToSeq(actor1_neighbors'), NeighborLimit)
    /\ a2_list' = <<>>
    /\ bridges_created' = 0
    /\ phase' = "bridge"
    /\ pc' = "returned"
    /\ UNCHANGED <<provider, calls, params, crawl, actor1_id, actor2_id, G_first, a1,
                   path, handler>>

\* lines 187-188: the next neighbour of actor1
BridgeOuter ==
    /\ phase = "bridge"
    /\ a2_list = <<>>
    /\ a1_list # <<>>
    /\ a1' = Head(a1_list)
    /\ a1_list' = Tail(a1_list)
    /\ a2_list' = Take(SetToSeq(actor2_neighbors), NeighborLimit)
    /\ \E ans \in CreditsAnswers(Head(a1_list)) : AnswerCredits(Head(a1_list), ans)
    /\ calls' = Append(calls, Call("get_actor_movies", Head(a1_list), 188, 0))
    /\ UNCHANGED <<params, crawl, pc, phase, actor1_id, actor2_id, G_conn, G_first,
                   actor1_neighbors, actor2_neighbors, bridges_created, path, handler>>

\* the titles read for the movies of S when the requests of `failing` are
\* answered by an error payload
TitlesRead(S, failing) ==
    [m \in S |-> IF m \in DOMAIN details THEN details[m]
                 ELSE IF m \in failing THEN FallbackTitle(m)
                 ELSE MovieTitle(m)]

\* the tests of lines 209 and 212 off by one
BudgetReachedLate(n) == n > BridgeLimit

\* lines 209 and 212: both loops are left
BudgetReached(n) == n >= BridgeLimit

\* lines 191-213: one neighbour of actor2 against the current neighbour of actor1
BridgePair ==
    /\ phase = "bridge"
    /\ a2_list # <<>>
    /\ LET a2 == Head(a2_list)
       IN  \E ans \in CreditsAnswers(a2) :
             LET common == TopMovieIds(credits[a1]) \cap TopMovieIds(ans.list)
                 asked  == common \ DOMAIN details
             IN  \E failing \in {F \in SUBSET asked :
                                    Cardinality(F) <= env.error - ans.error} :
                   LET titles == TitlesRead(common, failing)
                   IN  /\ credits' = (a2 :> ans.list) @@ credits
                       /\ details' = titles @@ details
                       /\ errored' = errored
                             \cup (IF ans.error = 1 THEN {CreditsKey(a2)} ELSE {})
                             \cup {DetailsKey(m) : m \in failing}
                       /\ env' = [env EXCEPT
                                    !.error = @ - ans.error - Cardinality(failing),
                                    !.prolific = @ - ans.prolific]
                       /\ UNCHANGED castOf
                       /\ calls' = Append(calls, Call("get_actor_movies", a2, 192, 0))
                                     \o [i \in 1..Cardinality(common) |->
                                           Call("get_movie_details", SetToSeq(common)[i], 200, 0)]
                       \* the first movie of the set's iteration makes the edge,
                       \* the others find it
                       /\ IF common # {} /\ ~HasEdge(G_conn, a1, a2)
                          THEN /\ \E first \in common :
                                     G_conn' = AddEdge(G_conn, a1, a2, <<titles[first]>>)
                               /\ bridges_created' = bridges_created + 1
                          ELSE UNCHANGED <<G_conn, bridges_created>>
    /\ a2_list' = IF BudgetReached(bridges_created') THEN <<>> ELSE Tail(a2_list)
    /\ a1_list' = IF BudgetReached(bridges_created') THEN <<>> ELSE a1_list
    /\ UNCHANGED <<params, crawl, pc, phase, actor1_id, actor2_id, G_first, a1,
                   actor1_neighbors, actor2_neighbors, path, handler>>

\* lines 217-225
FindPath ==
    /\ \/ phase = "path"
       \/ phase = "bridge" /\ a1_list = <<>> /\ a2_list = <<>>
    /\ path' \in PathResults(G_conn, actor1_id, actor2_id)
    /\ phase' = "done"
    /\ UNCHANGED <<provider, calls, params, crawl, pc, actor1_id, actor2_id, G_conn,
                   G_first, actor1_neighbors, actor2_neighbors, a1_list, a2_list, a1,
                   bridges_created, handler>>

\* find_actor_connection(actor1_id, actor2_id)
Init ==
    /\ InitProvider(0, 0, MaxProlific)
    /\ InitLocals
    /\ actor1_id = 1
    /\ actor2_id \in 1..2
    /\ start_actor_id = actor1_id
    /\ max_depth = DefaultMaxDepth
    /\ max_movies_per_actor = DefaultMaxMoviesPerActor
    /\ phase = "A"
    /\ InitConnLocals
    /\ InitHandlerLocals

Next ==
    \/ CrawlStep
    \/ AfterFirstCrawl
    \/ AfterSecondCrawl
    \/ BridgeOuter
    \/ BridgePair
    \/ FindPath
    \/ FetchRaises

Spec == Init /\ [][Next]_vars

(* ------------------------------------------------------------------ *)
(* find_actor_connection(1, 2) within an hour of the requests that     *)
(* filled st.cache_data with the credits and casts of two ensembles:   *)
(* actor 1 and actor 2 each have two films with many co-stars, and     *)
(* co-stars of both appear in one film that neither crawl retains.     *)
(* ------------------------------------------------------------------ *)
\* the co-stars of actor 1 and of actor 2
NeighborsA(k) == {10 + i : i \in 1..k}
NeighborsB(k) == {30 + i : i \in 1..k}

\* a co-star of the first co-star of actor 1, in two films without actor 1
Extra == 50

\* the film co-stars of the two ensembles share; it is less popular than
\* their other credits
SharedMovie == 1

\* the two films of actor a with his co-stars
HubMovies(a) == SubSeq(SetToSeq(FillerIds(a)), 1, 2)

\* the film of actor `hub` that lists co-star n: its cast is cut at ten
HubOf(hub, n, S) ==
    IF Cardinality({x \in S : x <= n}) <= CastLimit
    THEN HubMovies(hub)[1] ELSE HubMovies(hub)[2]

\* the answers of /person/{a}/movie_credits in the cache
WarmCredits(kA, kB, sharing) ==
    [a \in {1, 2} \cup NeighborsA(kA) \cup NeighborsB(kB) |->
        IF a \in {1, 2} THEN HubMovies(a)
        ELSE LET hub == IF a \in NeighborsA(kA)
                        THEN HubOf(1, a, NeighborsA(kA))
                        ELSE HubOf(2, a, NeighborsB(kB))
                 both == IF a \in NeighborsA(kA) \/ a - 30 <= sharing
                         THEN <<SharedMovie>> ELSE <<>>
             IN  <<hub>> \o both \o SetToSeq(FillerIds(a))]

\* the answers of /movie/{m}/credits in the cache
WarmCasts(kA, kB) ==
    LET own == UNION {FillerIds(a) : a \in NeighborsA(kA) \cup NeighborsB(kB)}
        hubs == Range(HubMovies(1)) \cup Range(HubMovies(2))
    IN  [m \in own \cup hubs |->
            IF m \in Range(HubMovies(1))
            THEN SetToSeq({n \in NeighborsA(kA) : HubOf(1, n, NeighborsA(kA)) = m})
            ELSE IF m \in Range(HubMovies(2))
            THEN SetToSeq({n \in NeighborsB(kB) : HubOf(2, n, NeighborsB(kB)) = m})
            ELSE IF m \in Range(SubSeq(SetToSeq(FillerIds(11)), 1, 2))
            THEN <<11, Extra>>
            ELSE <<FillerOwner(m)>>]

InitWarm ==
    /\ \E kA \in 1..MaxNeighborsA, kB \in 1..MaxNeighborsB :
          \E sharing \in 1..kB :
             /\ credits = WarmCredits(kA, kB, sharing)
             /\ castOf = WarmCasts(kA, kB)
    /\ details = <<>>
    /\ errored = {}
    /\ env = [dup |-> 0, error |-> 0, prolific |-> 0]
    /\ calls = <<>>
    /\ InitLocals
    /\ actor1_id = 1
    /\ actor2_id = 2
    /\ start_actor_id = actor1_id
    /\ max_depth = DefaultMaxDepth
    /\ max_movies_per_actor = DefaultMaxMoviesPerActor
    /\ phase = "A"
    /\ InitConnLocals
    /\ InitHandlerLocals

SpecWarm == InitWarm /\ [][Next]_vars

(* ------------------------------------------------------------------ *)
(* The "Find Connection" handler                                       *)
(* ------------------------------------------------------------------ *)
\* the names typed into the two text inputs
Names == {"Tom Hanks", "Kevin Bacon"}

\* the id of the first person the provider lists for a name it knows
PersonId(name) == IF name = "Tom Hanks" THEN 1 ELSE 2

\* data["results"][0], of which the handler reads "id"
Person(a) == <<"person", a>>

\* what search_actor(name) can return: the first result, or None when
\* total_results is 0
SearchAnswers(name) == {None, Person(PersonId(name))}

\* the crawl from the first actor is started as soon as that actor is found
DispatchEager(name1, name2, r1, r2) ==
    IF r1 = None
    THEN /\ outcome' = <<"Could not find actor", name1>>
         /\ phase' = "not_found"
         /\ UNCHANGED <<params, actor1_id, actor2_id>>
    ELSE /\ outcome' = None
         /\ phase' = "A"
         /\ actor1_id' = r1[2]
         /\ actor2_id' = IF r2 = None THEN 0 ELSE r2[2]
         /\ start_actor_id' = r1[2]
         /\ max_depth' = DefaultMaxDepth
         /\ max_movies_per_actor' = DefaultMaxMoviesPerActor

\* lines 282-302: an error for the first name that was not found, and the call
\* find_actor_connection(actor1["id"], actor2["id"]) when both were
Dispatch(name1, name2, r1, r2) ==
    IF r1 = None
    THEN /\ outcome' = <<"Could not find actor", name1>>
         /\ phase' = "not_found"
         /\ UNCHANGED <<params, actor1_id, actor2_id>>
    ELSE IF r2 = None
    THEN /\ outcome' = <<"Could not find actor", name2>>
         /\ phase' = "not_found"
         /\ UNCHANGED <<params, actor1_id, actor2_id>>
    ELSE /\ outcome' = None
         /\ phase' = "A"
         /\ actor1_id' = r1[2]
         /\ actor2_id' = r2[2]
         /\ start_actor_id' = r1[2]
         /\ max_depth' = DefaultMaxDepth
         /\ max_movies_per_actor' = DefaultMaxMoviesPerActor

\* lines 277-302: the button is clicked; both names are searched for before
\* either result is tested, and st.cache_data answers a repeated name alike
FindConnection ==
    /\ phase = "handler"
    /\ \E name1 \in {"Tom Hanks"}, name2 \in Names :
          \E r1 \in SearchAnswers(name1) :
             \E r2 \in (IF name2 = name1 THEN {r1} ELSE SearchAnswers(name2)) :
                /\ actor1' = r1
                /\ actor2' = r2
                /\ calls' = calls \o <<Call("search_actor", name1, 279, 0),
                                        Call("search_actor", name2, 280, 0)>>
                /\ Dispatch(name1, name2, r1, r2)
    /\ UNCHANGED <<provider, crawl, pc, G_conn, G_first, actor1_neighbors,
                   actor2_neighbors, a1_list, a2_list, a1, bridges_created, path>>

\* lines 35-38: requests.get raises in search_actor, or the body has no
\* "total_results"; nothing in the handler catches it
SearchRaises ==
    /\ phase = "handler"
    /\ phase' = "raised"
    /\ UNCHANGED <<provider, calls, params, crawl, pc, conn, handler>>

\* G.nodes[path[i]]["name"], G.nodes[path[i+1]]["name"] and
\* G[path[i]][path[i+1]]["movies"][0] of lines 310-315
PathLines(g, p) ==
    [i \in 1..(Len(p) - 1) |->
        <<g.nodes[p[i]].name, g.nodes[p[i + 1]].name, Head(EdgeMovies(g, p[i], p[i + 1]))>>]

\* lines 304-327: find_actor_connection has returned
ShowResult ==
    /\ phase = "done"
    /\ outcome' = IF path # None
                  THEN <<"Found a connection", Len(path) - 1, PathLines(G_conn, path)>>
                  ELSE <<"No connection found", Cardinality(NodesOf(G_conn)),
                         Cardinality(G_conn.edges)>>
    /\ phase' = "shown"
    /\ UNCHANGED <<provider, calls, params, crawl, pc, conn, actor1, actor2>>

InitHandler ==
    /\ InitProvider(0, 0, MaxProlific)
    /\ InitLocals
    /\ InitConnLocals
    /\ InitHandlerLocals
    /\ actor1_id = 0
    /\ actor2_id = 0
    /\ start_actor_id = 0
    /\ max_depth = 0
    /\ max_movies_per_actor = 0
    /\ phase = "handler"

NextHandler ==
    \/ FindConnection
    \/ SearchRaises
    \/ Next
    \/ ShowResult

SpecHandler == InitHandler /\ [][NextHandler]_vars

(* ------------------------------------------------------------------ *)
(* Properties                                                          *)
(* ------------------------------------------------------------------ *)
\* an edge as the pair of its ends and its titles
EdgeView(g) == {[ends |-> {e.u, e.v}, movies |-> e.movies] : e \in g.edges}

NoSelfLoop(g) == \A e \in g.edges : e.u # e.v

AtMostOneEdge(g) ==
    \A e, f \in g.edges : ({e.u, e.v} = {f.u, f.v}) => (e = f)

\* build_actor_graph(X, max_depth=1) has returned, the provider gave X exactly
\* one retained movie, and that movie's cast is X and two other actors
Scenario1 ==
    /\ phase = "crawl"
    /\ pc = "returned"
    /\ max_depth = 1
    /\ start_actor_id \in DOMAIN credits
    /\ LET kept == RetainedMovies(credits[start_actor_id], max_movies_per_actor)
       IN  /\ Len(kept) = 1
           /\ kept[1] \in DOMAIN castOf
           /\ Len(castOf[kept[1]]) = 3
           /\ Cardinality(Range(castOf[kept[1]])) = 3
           /\ start_actor_id \in Range(castOf[kept[1]])

Scenario1Movie == RetainedMovies(credits[start_actor_id], max_movies_per_actor)[1]

Scenario1Cast == Range(castOf[Scenario1Movie])

\* C1 as stated: in Scenario 1 the graph has the nodes X, Y, Z and the edges
\* X-Y, X-Z and Y-Z, each with the title list [M]
C1_AllPairsLinked ==
    Scenario1 =>
        /\ NodesOf(G) = Scenario1Cast
        /\ EdgeView(G) =
              {[ends |-> {a, b}, movies |-> <<MovieTitle(Scenario1Movie)>>] :
                 a, b \in Scenario1Cast} \ 
              {[ends |-> {a}, movies |-> <<MovieTitle(Scenario1Movie)>>] :
                 a \in Scenario1Cast}

\* C1 amended: in Scenario 1 the graph has the nodes X, Y, Z and exactly the
\* edges X-Y and X-Z, each with the title list [M]; Y and Z are not linked
C1_SeedLinkedToCast ==
    Scenario1 =>
        /\ NodesOf(G) = Scenario1Cast
        /\ EdgeView(G) =
              {[ends |-> {start_actor_id, b},
                movies |-> <<MovieTitle(Scenario1Movie)>>] :
                 b \in Scenario1Cast \ {start_actor_id}}

C1_Witness == Scenario1 /\ Cardinality(G.edges) = 2

\* C2 as stated: the graph find_actor_connection returns has no edge from an
\* actor to itself
C2_NoSelfLoopReturned == (phase = "done") => NoSelfLoop(G_conn)

\* C3: in every state of build_actor_graph the graph has no self-loop and at
\* most one edge between two actors
C3_SimpleGraph == (phase = "crawl") => (NoSelfLoop(G) /\ AtMostOneEdge(G))

\* a crawl has returned in which a cast list repeated a member, the expanding
\* actor was in a cast list it fetched, and an edge was found twice
C3_Witness ==
    /\ phase = "crawl"
    /\ pc = "returned"
    /\ \E m \in DOMAIN castOf : Cardinality(Range(castOf[m])) < Len(castOf[m])
    /\ \E i \in 1..Len(calls) :
          /\ calls[i].fn = "get_movie_cast"
          /\ \E j \in 1..i :
                /\ calls[j].line = 122
                /\ calls[j].arg \in Range(castOf[calls[i].arg])
                /\ \A k \in (j + 1)..i : calls[k].line # 122
    /\ \E e \in G.edges : Len(e.movies) >= 2

\* C4: build_actor_graph ends: it returns, or a fetch raised
C4_Terminates == <>(pc \in {"returned", "raised"})

\* a crawl of depth 2 has returned over a cyclic relation: two movies whose
\* casts were fetched share two actors
C4_Witness ==
    /\ phase = "crawl"
    /\ pc = "returned"
    /\ max_depth = 2
    /\ \E m1, m2 \in visited_movies :
          /\ m1 # m2
          /\ Cardinality(Range(castOf[m1]) \cap Range(castOf[m2])) >= 2

CreditsCalls == {i \in 1..Len(calls) : calls[i].fn = "get_actor_movies"}

\* C5 as stated: build_actor_graph never fetches the credits of an actor whose
\* depth is max_depth or more, the seed (depth 0) included
C5_NoFetchAtMaxDepth ==
    (phase = "crawl") => \A i \in CreditsCalls : calls[i].depth < max_depth

\* C5 amended: the loop of build_actor_graph never fetches the credits of an
\* actor dequeued at depth max_depth or more; the one other fetch of credits is
\* that of the seed before the loop (line 87), made whatever max_depth is
C5_NoExpansionAtMaxDepth ==
    (phase = "crawl") =>
        \A i \in CreditsCalls :
            \/ calls[i].line = 122 /\ calls[i].depth < max_depth
            \/ calls[i].line = 87 /\ i = 1 /\ calls[i].arg = start_actor_id

\* a crawl has returned that met actors at max_depth and left them unexpanded
C5_Witness ==
    /\ phase = "crawl"
    /\ pc = "returned"
    /\ max_depth >= 1
    /\ \E n \in NodesOf(G) : \A i \in CreditsCalls : calls[i].arg # n

\* C7 as stated: a failing fetch never aborts the crawl: a crawl that has added
\* edges goes on to return them
C7_CrawlNeverAborted == (phase = "crawl" /\ G.edges # {}) => (pc # "raised")

RECURSIVE Walks(_, _)
\* the sequences of n nodes of g in which consecutive nodes are joined by an edge
Walks(g, n) ==
    IF n = 1 THEN {<<x>> : x \in NodesOf(g)}
    ELSE {Append(w, x) : w \in Walks(g, n - 1), x \in NodesOf(g)}

IsWalk(g, w) == \A i \in 1..(Len(w) - 1) : HasEdge(g, w[i], w[i + 1])

\* the sequences of n nodes that connect s to t in g
Connections(g, s, t, n) ==
    {w \in Walks(g, n) : w[1] = s /\ w[n] = t /\ IsWalk(g, w)}

\* C6: a returned path runs from actor1 to actor2 along edges of the returned
\* graph and no sequence with fewer hops connects them; None is returned
\* exactly when no sequence connects them
C6_ShortestPath ==
    (phase = "done") =>
        IF path = None
        THEN \A n \in 1..Cardinality(NodesOf(G_conn)) :
                Connections(G_conn, actor1_id, actor2_id, n) = {}
        ELSE /\ path[1] = actor1_id
             /\ path[Len(path)] = actor2_id
             /\ Range(path) \subseteq NodesOf(G_conn)
             /\ IsWalk(G_conn, path)
             /\ \A n \in 1..(Len(path) - 1) :
                   Connections(G_conn, actor1_id, actor2_id, n) = {}

\* a path of three hops was returned although another route with more hops
\* exists
C6_Witness ==
    /\ phase = "done"
    /\ path # None
    /\ Len(path) = 3
    /\ \E w \in Connections(G_conn, actor1_id, actor2_id, 4) :
          Cardinality(Range(w)) = 4

\* the second crawl and the merge have happened
Merged == phase \in {"bridge", "done"} /\ ~HasNode(G_first, actor2_id)

\* C8 as stated: an edge both crawled graphs have carries, in the merged graph,
\* the first graph's titles followed by the second graph's
C8_TitlesConcatenated ==
    Merged =>
        \A e \in G_first.edges :
            HasEdge(G, e.u, e.v) =>
                EdgeMovies(G_conn, e.u, e.v) = e.movies \o EdgeMovies(G, e.u, e.v)

\* C8 amended: an edge both crawled graphs have carries, in the merged graph,
\* the second graph's title list alone; the first graph's list for that edge
\* is dropped
C8_SecondGraphTitles ==
    Merged =>
        \A e \in G_first.edges :
            HasEdge(G, e.u, e.v) =>
                EdgeMovies(G_conn, e.u, e.v) = EdgeMovies(G, e.u, e.v)

C8_Witness ==
    /\ Merged
    /\ \E e \in G_first.edges : HasEdge(G, e.u, e.v)

\* C9: when actor2 is a node of the first crawl's graph there is no second
\* crawl and no bridging: no fetch after the first crawl, the returned graph is
\* the first crawl's, and adjacent actors get the path [actor1, actor2]
C9_FirstCrawlSuffices ==
    (phase = "done" /\ HasNode(G_first, actor2_id)) =>
        /\ G_conn = G_first
        /\ G = G_first
        /\ \A i \in 1..Len(calls) : calls[i].phase = "A"
        /\ bridges_created = 0
        /\ HasEdge(G_first, actor1_id, actor2_id) => path = <<actor1_id, actor2_id>>

C9_Witness ==
    /\ phase = "done"
    /\ HasNode(G_first, actor2_id)
    /\ HasEdge(G_first, actor1_id, actor2_id)
    /\ path = <<actor1_id, actor2_id>>

\* the graph of line 175, before bridging
MergedGraph == Compose(G_first, G)

\* the ids of the first ten credits of n
FirstTenCredits(n) ==
    IF n \in DOMAIN credits THEN Range(Take(credits[n], 10)) ELSE {}

AllCredits(n) == IF n \in DOMAIN credits THEN Range(credits[n]) ELSE {}

\* the first ten of a neighbourhood, which bridging examines
Examined(S) == Range(Take(SetToSeq(S), 10))

\* neither crawl reached the other query actor
NotConnectedByCrawls == ~HasNode(G_first, actor2_id) /\ ~HasNode(G, actor1_id)

Searched ==
    /\ Len(calls) >= 2
    /\ calls[1].fn = "search_actor"
    /\ calls[2].fn = "search_actor"

\* C11: when the search for either name returned no match, the request ends
\* with the not-found message for that name and nothing of the crawler ran:
\* no step of build_actor_graph or find_actor_connection and no fetch of
\* credits, of a cast or of a movie's details
C11_NotFoundNoCrawl ==
    (Searched /\ (actor1 = None \/ actor2 = None)) =>
        /\ phase = "not_found"
        /\ outcome[1] = "Could not find actor"
        /\ \A i \in 1..Len(calls) : calls[i].fn = "search_actor"
        /\ DOMAIN credits = {} /\ DOMAIN castOf = {} /\ DOMAIN details = {}
        /\ pc = "start"
        /\ G = EmptyGraph /\ G_conn = EmptyGraph
        /\ queue = <<>> /\ path = None

\* the first name was found and the second was not
C11_Witness ==
    /\ phase = "not_found"
    /\ actor1 = Person(1)
    /\ actor2 = None
    /\ outcome = <<"Could not find actor", "Kevin Bacon">>

\* an entry was appended to the queue (lines 106 and 160)
Appended == Len(queue') > Len(queue)

\* C12: in every state of build_actor_graph every entry of the queue has a
\* depth of at most max_depth, and the entry a step appends is for an actor
\* that is not in visited_actors at that moment
C12_QueueBounded ==
    /\ [](Called => \A i \in 1..Len(queue) : queue[i][2] <= max_depth)
    /\ [][(Called /\ Appended) =>
             queue'[Len(queue')][1] \notin visited_actors']_vars

\* the queue holds an entry at depth max_depth and an entry of an actor that
\* was visited since it was appended, and the seed, met again in a cast that
\* was fetched, has no entry
C12_Witness ==
    /\ phase = "crawl"
    /\ max_depth = 2
    /\ \E i \in 1..Len(queue) : queue[i][2] = max_depth
    /\ \E j \in 1..Len(queue) : queue[j][1] \in visited_actors
    /\ \E m \in visited_movies : start_actor_id \in Range(castOf[m])
    /\ \A i \in 1..Len(queue) : queue[i][1] # start_actor_id

\* the actors expanded so far: those whose credits line 122 fetched
Expanded == {calls[i].arg : i \in {k \in 1..Len(calls) : calls[k].line = 122}}

\* C13: within one call of build_actor_graph no movie has its cast fetched
\* twice (line 137) and no actor is expanded twice (line 122)
C13_FetchedOnce ==
    \A i, j \in 1..Len(calls) :
        ( /\ calls[i].line \in {122, 137}
          /\ calls[i].line = calls[j].line
          /\ calls[i].phase = calls[j].phase
          /\ calls[i].arg = calls[j].arg ) => (i = j)

\* a movie is among the retained credits of two expanded actors while an
\* actor sits in the queue twice
C13_Witness ==
    /\ phase = "crawl"
    /\ \E a, b \in Expanded :
          /\ a # b
          /\ Range(RetainedMovies(credits[a], max_movies_per_actor))
                \cap Range(RetainedMovies(credits[b], max_movies_per_actor))
                \cap visited_movies # {}
    /\ \E i, j \in 1..Len(queue) : i < j /\ queue[i][1] = queue[j][1]

\* the edges bridging has added to the merged graph
BridgeEdges == G_conn.edges \ MergedGraph.edges

\* C14: bridging adds at most BridgeLimit edges in all, and once the budget
\* is reached no further pair of neighbours is examined: no credits are
\* fetched for one and no edge is added
C14_BridgeBudget ==
    /\ [](/\ bridges_created <= BridgeLimit
          /\ (phase \in {"bridge", "done"}) => Cardinality(BridgeEdges) <= BridgeLimit)
    /\ [][BudgetReached(bridges_created) => (calls' = calls /\ G_conn' = G_conn)]_vars

\* the budget ran out: the twentieth bridge was made and a pair of examined
\* neighbours that share a credit was left without an edge
C14_Witness ==
    /\ phase = "done"
    /\ bridges_created = BridgeLimit
    /\ Cardinality(BridgeEdges) = BridgeLimit
    /\ \E n1 \in Examined(actor1_neighbors), n2 \in Examined(actor2_neighbors) :
          /\ FirstTenCredits(n1) \cap FirstTenCredits(n2) # {}
          /\ ~HasEdge(G_conn, n1, n2)

\* C15 as stated: a pair of distinct examined neighbours that had no edge
\* before bridging and whose first ten credits share k >= 1 movies ends up
\* with an edge that carries the k titles of those movies
C15_AllSharedTitles ==
    (phase = "done" /\ ~HasNode(G_first, actor2_id) /\ bridges_created < BridgeLimit) =>
        \A n1 \in Examined(actor1_neighbors), n2 \in Examined(actor2_neighbors) :
            LET common == FirstTenCredits(n1) \cap FirstTenCredits(n2)
            IN  (n1 # n2 /\ common # {} /\ ~HasEdge(MergedGraph, n1, n2)) =>
                    /\ HasEdge(G_conn, n1, n2)
                    /\ Len(EdgeMovies(G_conn, n1, n2)) = Cardinality(common)
                    /\ Range(EdgeMovies(G_conn, n1, n2)) = {details[m] : m \in common}

\* the titles of the edge u-v, none when there is no such edge
TitlesOf(g, u, v) == IF HasEdge(g, u, v) THEN EdgeMovies(g, u, v) ELSE <<>>

\* C16: each step of build_actor_graph that handles a cast member b other
\* than the expanding actor a leaves exactly one a-b edge, whose title list
\* is the list before the step (empty when there was no edge) with the
\* movie's title appended, and no other edge changes
C16_TitleAppended ==
    [][(Called /\ pc = "cast" /\ actor_id # Head(cast)) =>
          /\ Cardinality({e \in G'.edges : Joins(e, actor_id, Head(cast))}) = 1
          /\ TitlesOf(G', actor_id, Head(cast))
                = Append(TitlesOf(G, actor_id, Head(cast)), movie_title)
          /\ {e \in G'.edges : ~Joins(e, actor_id, Head(cast))}
                = {e \in G.edges : ~Joins(e, actor_id, Head(cast))}]_vars

\* an edge carries the same title twice: the cast list repeated the member
C16_Witness ==
    /\ phase = "crawl"
    /\ \E e \in G.edges :
          /\ Len(e.movies) = 2
          /\ e.movies[1] = e.movies[2]

\* the node n of g carries a name that is not the placeholder
RealName(g, n) ==
    /\ HasNode(g, n)
    /\ g.nodes[n].name \notin {PlaceholderName(n), Missing}

\* C17: a step of a crawl leaves the attributes of every node the graph
\* already has as they are, and in the merged graph every actor with a real
\* name in the first or in the second crawl's graph has a real name, with
\* the image that came with it
C17_NamesKept ==
    /\ [][(Called /\ pc # "start") =>
             \A n \in NodesOf(G) \cap NodesOf(G') : G'.nodes[n] = G.nodes[n]]_vars
    /\ [](Merged =>
             \A n \in NodesOf(G_conn) :
                 (RealName(G_first, n) \/ RealName(G, n)) =>
                     /\ RealName(G_conn, n)
                     /\ \E g \in {G_first, G} :
                           RealName(g, n) /\ G_conn.nodes[n] = g.nodes[n])

\* the first actor, whose node carries the placeholder in the first graph, is
\* a cast member with a real name in the second; the merged graph has the
\* real name
C17_Witness ==
    /\ Merged
    /\ ~RealName(G_first, actor1_id)
    /\ RealName(G, actor1_id)
    /\ RealName(G_conn, actor1_id)

\* both ends of every edge of g are nodes with a name, and every edge has a
\* title
WellFormed(g) ==
    \A e \in g.edges :
        /\ HasNode(g, e.u) /\ g.nodes[e.u].name # Missing
        /\ HasNode(g, e.v) /\ g.nodes[e.v].name # Missing
        /\ e.movies # <<>>

\* C18: in every state of a crawl and of the bridging, a state in which a
\* fetch raised included, the graph being built and the merged graph are
\* well-formed
C18_WellFormed == WellFormed(G) /\ WellFormed(G_conn)

\* a fetch raised in the middle of the bridging, after an edge was added to
\* the merged graph
C18_Witness ==
    /\ phase = "raised"
    /\ bridges_created >= 1
    /\ BridgeEdges # {}
    /\ \A e \in BridgeEdges : Len(e.movies) = 1

RECURSIVE Ball(_, _, _)
\* the nodes of g that k edges or fewer connect to a node of S
Ball(g, S, k) ==
    IF k = 0 THEN S
    ELSE Ball(g, S \cup UNION {Neighbors(g, x) : x \in S}, k - 1)

\* C19: every node of the graph build_actor_graph builds is within max_depth
\* edges of the seed inside that graph, for the first crawl's graph as for
\* the second's; and when actor2 is a node of the first crawl's graph,
\* find_actor_connection returns a path of at most max_depth hops
C19_WithinMaxDepth ==
    /\ NodesOf(G) \subseteq Ball(G, {start_actor_id}, max_depth)
    /\ NodesOf(G_first) \subseteq Ball(G_first, {actor1_id}, DefaultMaxDepth)
    /\ (phase = "done" /\ HasNode(G_first, actor2_id)) =>
          /\ path # None
          /\ Len(path) - 1 <= DefaultMaxDepth

\* actor2 was met by the first crawl at max_depth, two hops from actor1, and
\* a path of two hops was returned
C19_Witness ==
    /\ phase = "done"
    /\ HasNode(G_first, actor2_id)
    /\ actor2_id \notin Ball(G_first, {actor1_id}, 1)
    /\ path # None
    /\ Len(path) - 1 = DefaultMaxDepth

====
